---- MODULE Spec2Model ----
(***************************************************************************)
(* Model of the Factory_Genie_Node HTTP gateway (src/index.js, the variant *)
(* of lines 82-289): the /get-data, /update-document and /delete-document  *)
(* handlers over mongoose's process-wide model registry.                   *)
(*                                                                         *)
(* JavaScript strings are sequences of one-character strings, so that      *)
(* endsWith, split, parseInt, Number and the template literals of the code *)
(* are computed character by character.                                    *)
(***************************************************************************)
EXTENDS Integers, Sequences, FiniteSets, TLC

VARIABLES models, modelCalls, reqs

vars == <<models, modelCalls, reqs>>

----------------------------------------------------------------------------
(* JavaScript string primitives                                            *)

\* String.prototype.startsWith / endsWith
StartsWith(s, p) == Len(s) >= Len(p) /\ SubSeq(s, 1, Len(p)) = p

EndsWith(s, p) == Len(s) >= Len(p) /\ SubSeq(s, Len(s) - Len(p) + 1, Len(s)) = p

\* String.prototype.indexOf, 1-based; 0 when p does not occur in s
IndexOf(s, p) ==
    LET hits == {i \in 1..(Len(s) - Len(p) + 1) : SubSeq(s, i, i + Len(p) - 1) = p}
    IN  IF hits = {} THEN 0 ELSE CHOOSE i \in hits : \A j \in hits : i <= j

\* String.prototype.split(sep) for a non-empty separator
RECURSIVE Split(_, _)
Split(s, sep) ==
    LET i == IndexOf(s, sep)
    IN  IF i = 0
        THEN <<s>>
        ELSE <<SubSeq(s, 1, i - 1)>> \o Split(SubSeq(s, i + Len(sep), Len(s)), sep)

\* Array.prototype.join(sep)
RECURSIVE Join(_, _)
Join(parts, sep) ==
    IF Len(parts) = 0 THEN <<>>
    ELSE IF Len(parts) = 1 THEN parts[1]
    ELSE parts[1] \o sep \o Join(Tail(parts), sep)

\* String.prototype.toLowerCase on the ASCII letters
LowerChar(c) ==
    CASE c = "A" -> "a" [] c = "B" -> "b" [] c = "C" -> "c" [] c = "D" -> "d"
      [] c = "E" -> "e" [] c = "F" -> "f" [] c = "G" -> "g" [] c = "H" -> "h"
      [] c = "I" -> "i" [] c = "J" -> "j" [] c = "K" -> "k" [] c = "L" -> "l"
      [] c = "M" -> "m" [] c = "N" -> "n" [] c = "O" -> "o" [] c = "P" -> "p"
      [] c = "Q" -> "q" [] c = "R" -> "r" [] c = "S" -> "s" [] c = "T" -> "t"
      [] c = "U" -> "u" [] c = "V" -> "v" [] c = "W" -> "w" [] c = "X" -> "x"
      [] c = "Y" -> "y" [] c = "Z" -> "z" [] OTHER -> c

toLowerCase(s) == [i \in 1..Len(s) |-> LowerChar(s[i])]

\* ToBoolean of a string: only the empty string is falsy
TruthyStr(s) == Len(s) > 0

----------------------------------------------------------------------------
(* JavaScript numbers.  A finite number is m * 10^e with m not divisible   *)
(* by 10 (zero is 0 * 10^0), so equal numbers are equal records.  The      *)
(* sign of zero and the rounding of doubles are not represented.           *)

RECURSIVE NormM(_), NormE(_, _)
NormM(m) == IF m = 0 THEN 0 ELSE IF m % 10 = 0 THEN NormM(m \div 10) ELSE m

NormE(m, e) == IF m = 0 THEN 0 ELSE IF m % 10 = 0 THEN NormE(m \div 10, e + 1) ELSE e

Finite(m, e) == [t |-> "number", k |-> "finite", m |-> NormM(m), e |-> NormE(m, e)]

NaN == [t |-> "number", k |-> "NaN", m |-> 0, e |-> 0]

Infinity(sign) ==
    [t |-> "number", k |-> IF sign < 0 THEN "-Infinity" ELSE "Infinity", m |-> 0, e |-> 0]

IsWhiteSpace(c) == c \in {" ", "\t", "\n", "\r", "\f"}

RECURSIVE TrimStart(_), TrimEnd(_)
TrimStart(s) == IF Len(s) > 0 /\ IsWhiteSpace(s[1]) THEN TrimStart(Tail(s)) ELSE s

TrimEnd(s) ==
    IF Len(s) > 0 /\ IsWhiteSpace(s[Len(s)]) THEN TrimEnd(SubSeq(s, 1, Len(s) - 1)) ELSE s

\* The value of a digit character in the given radix, -1 when it is none
DigitVal(c, radix) ==
    LET v == CASE c = "0" -> 0 [] c = "1" -> 1 [] c = "2" -> 2 [] c = "3" -> 3
               [] c = "4" -> 4 [] c = "5" -> 5 [] c = "6" -> 6 [] c = "7" -> 7
               [] c = "8" -> 8 [] c = "9" -> 9
               [] c \in {"a", "A"} -> 10 [] c \in {"b", "B"} -> 11
               [] c \in {"c", "C"} -> 12 [] c \in {"d", "D"} -> 13
               [] c \in {"e", "E"} -> 14 [] c \in {"f", "F"} -> 15
               [] OTHER -> 0 - 1
    IN  IF v < radix THEN v ELSE 0 - 1

AllDigits(s, radix) == \A i \in 1..Len(s) : DigitVal(s[i], radix) >= 0

RECURSIVE DigitsValue(_, _, _)
DigitsValue(s, radix, acc) ==
    IF Len(s) = 0 THEN acc
    ELSE DigitsValue(Tail(s), radix, acc * radix + DigitVal(s[1], radix))

\* The longest prefix of s made of digits of the radix
RECURSIVE DigitPrefix(_, _)
DigitPrefix(s, radix) ==
    IF Len(s) > 0 /\ DigitVal(s[1], radix) >= 0
    THEN <<s[1]>> \o DigitPrefix(Tail(s), radix)
    ELSE <<>>

HasSign(s) == Len(s) > 0 /\ s[1] \in {"+", "-"}

SignOf(s) == IF Len(s) > 0 /\ s[1] = "-" THEN 0 - 1 ELSE 1

Unsigned(s) == IF HasSign(s) THEN Tail(s) ELSE s

RadixPrefix(s) ==
    IF Len(s) >= 2 /\ s[1] = "0"
    THEN CASE s[2] \in {"x", "X"} -> 16
           [] s[2] \in {"o", "O"} -> 8
           [] s[2] \in {"b", "B"} -> 2
           [] OTHER -> 0
    ELSE 0

\* StrUnsignedDecimalLiteral: Infinity | D+ [. D*] [exp] | . D+ [exp]
ExpIndex(u) ==
    LET hits == {i \in 1..Len(u) : u[i] \in {"e", "E"}}
    IN  IF hits = {} THEN 0 ELSE CHOOSE i \in hits : \A j \in hits : i <= j

MantissaOf(u) == IF ExpIndex(u) = 0 THEN u ELSE SubSeq(u, 1, ExpIndex(u) - 1)

ExponentOf(u) == IF ExpIndex(u) = 0 THEN <<>> ELSE SubSeq(u, ExpIndex(u) + 1, Len(u))

IntPart(mant) ==
    IF IndexOf(mant, <<".">>) = 0 THEN mant ELSE SubSeq(mant, 1, IndexOf(mant, <<".">>) - 1)

FracPart(mant) ==
    IF IndexOf(mant, <<".">>) = 0 THEN <<>>
    ELSE SubSeq(mant, IndexOf(mant, <<".">>) + 1, Len(mant))

IsMantissa(mant) ==
    /\ AllDigits(IntPart(mant), 10)
    /\ AllDigits(FracPart(mant), 10)
    /\ Len(IntPart(mant)) + Len(FracPart(mant)) > 0

IsExponent(u) ==
    \/ ExpIndex(u) = 0
    \/ /\ Len(Unsigned(ExponentOf(u))) > 0
       /\ AllDigits(Unsigned(ExponentOf(u)), 10)

IsUnsignedDecimal(u) == IsMantissa(MantissaOf(u)) /\ IsExponent(u)

UnsignedDecimalValue(u, sign) ==
    LET mant == MantissaOf(u)
        ex   == IF ExpIndex(u) = 0 THEN 0
                ELSE SignOf(ExponentOf(u)) * DigitsValue(Unsigned(ExponentOf(u)), 10, 0)
    IN  Finite(sign * DigitsValue(IntPart(mant) \o FracPart(mant), 10, 0),
               ex - Len(FracPart(mant)))

INFINITY == <<"I", "n", "f", "i", "n", "i", "t", "y">>

\* ToNumber applied to a string (ECMAScript StringToNumber), which is what
\* Number(val) and isNaN(val) compute for a string val
Number(str) ==
    LET s == TrimEnd(TrimStart(str))
        u == Unsigned(s)
    IN  IF Len(s) = 0 THEN Finite(0, 0)
        ELSE IF RadixPrefix(s) > 0
        THEN IF Len(s) > 2 /\ AllDigits(SubSeq(s, 3, Len(s)), RadixPrefix(s))
             THEN Finite(DigitsValue(SubSeq(s, 3, Len(s)), RadixPrefix(s), 0), 0)
             ELSE NaN
        ELSE IF u = INFINITY THEN Infinity(SignOf(s))
        ELSE IF IsUnsignedDecimal(u) THEN UnsignedDecimalValue(u, SignOf(s))
        ELSE NaN

isNaN(str) == Number(str).k = "NaN"

\* parseInt(string) with no radix argument
parseInt(str) ==
    LET s      == TrimStart(str)
        u      == Unsigned(s)
        hex    == RadixPrefix(u) = 16
        radix  == IF hex THEN 16 ELSE 10
        body   == IF hex THEN SubSeq(u, 3, Len(u)) ELSE u
        digits == DigitPrefix(body, radix)
    IN  IF Len(digits) = 0 THEN NaN
        ELSE Finite(SignOf(s) * DigitsValue(digits, radix, 0), 0)

----------------------------------------------------------------------------
(* Plain JavaScript objects keyed by strings (req.query, filterObj,        *)
(* sortObj, mongoose.models, the flattened update) and their members.      *)

\* {} : the object with no own property
EmptyObj == <<>>

\* obj[k] = v
Put(obj, k, v) == [x \in (DOMAIN obj) \cup {k} |-> IF x = k THEN v ELSE obj[x]]

\* Object.assign(target, source)
Assign(target, source) ==
    [x \in (DOMAIN target) \cup (DOMAIN source) |->
        IF x \in DOMAIN source THEN source[x] ELSE target[x]]

\* req.query is kept as the sequence of its <<name, value>> members in
\* enumeration order (names are distinct): for..in and the rest pattern
\* visit the members in that order.
Has(query, name) == \E i \in 1..Len(query) : query[i][1] = name

Get(query, name) == query[CHOOSE i \in 1..Len(query) : query[i][1] = name][2]

\* !x that only sees undefined: the empty string passes as present
Falsy_UndefinedOnly(query, name) == ~Has(query, name)

\* !x for a query parameter x: undefined or the empty string
Falsy(query, name) == ~Has(query, name) \/ ~TruthyStr(Get(query, name))

COLLECTION == <<"c", "o", "l", "l", "e", "c", "t", "i", "o", "n">>

LIMIT == <<"l", "i", "m", "i", "t">>

SORTBY == <<"s", "o", "r", "t", "B", "y">>

SORTORDER == <<"s", "o", "r", "t", "O", "r", "d", "e", "r">>

ID == <<"i", "d">>

ASC == <<"a", "s", "c">>

DESC == <<"d", "e", "s", "c">>

TRUESTR == <<"t", "r", "u", "e">>

FALSESTR == <<"f", "a", "l", "s", "e">>

EXISTS_SUFFIX == <<"_", "_", "e", "x", "i", "s", "t", "s">>

DefaultLimit == 50

\* The names bound by the destructuring pattern, which is also the list of
\* the loop's includes() test
ControlKeys == {COLLECTION, LIMIT, SORTBY, SORTORDER}

----------------------------------------------------------------------------
(* /get-data: the query translation                                        *)

\* ...rawFilters : the members of req.query the pattern does not name
IsFilterMember(p) == p[1] \notin ControlKeys

rawFilters(query) == SelectSeq(query, IsFilterMember)

\* const parsedLimit = limit ? parseInt(limit) : 50
parsedLimit(query) ==
    IF ~Falsy(query, LIMIT) THEN parseInt(Get(query, LIMIT)) ELSE Finite(DefaultLimit, 0)

\* sortOrder = 'asc' : the default applies to undefined only
sortOrderOf(query) == IF Has(query, SORTORDER) THEN Get(query, SORTORDER) ELSE ASC

\* if (sortBy) sortObj[sortBy] = sortOrder.toLowerCase() === 'desc' ? -1 : 1
sortObj(query) ==
    IF ~Falsy(query, SORTBY)
    THEN Put(EmptyObj, Get(query, SORTBY),
             IF toLowerCase(sortOrderOf(query)) = DESC THEN 0 - 1 ELSE 1)
    ELSE EmptyObj

\* const field = key.split('__')[0]
ExistsField(key) == Split(key, <<"_", "_">>)[1]

\* { $exists: rawFilters[key] === 'true' }
ExistsPredicate(raw) == [t |-> "$exists", b |-> (raw = TRUESTR)]

\* the values.map callback
ConvertToken(val) ==
    IF ~isNaN(val) THEN Number(val)
    ELSE IF val = TRUESTR THEN [t |-> "boolean", b |-> TRUE]
    ELSE IF val = FALSESTR THEN [t |-> "boolean", b |-> FALSE]
    ELSE [t |-> "string", s |-> val]

\* rawFilters[key].split(',').map(...)
Converted(raw) ==
    LET values == Split(raw, <<",">>)
    IN  [i \in 1..Len(values) |-> ConvertToken(values[i])]

\* converted[0] whatever the length: the other tokens are dropped
FilterValue_FirstOnly(converted) == converted[1]

\* converted.length === 1 ? converted[0] : { $in: converted }
FilterValue(converted) ==
    IF Len(converted) = 1 THEN converted[1] ELSE [t |-> "$in", list |-> converted]

\* one iteration of the for..in loop over rawFilters
FilterStep(filterObj, key, raw) ==
    IF key \in ControlKeys THEN filterObj
    ELSE IF EndsWith(key, EXISTS_SUFFIX)
    THEN Put(filterObj, ExistsField(key), ExistsPredicate(raw))
    ELSE Put(filterObj, key, FilterValue(Converted(raw)))

RECURSIVE FilterLoop(_, _)
FilterLoop(filters, filterObj) ==
    IF Len(filters) = 0 THEN filterObj
    ELSE FilterLoop(Tail(filters), FilterStep(filterObj, filters[1][1], filters[1][2]))

\* let filterObj = {}; for (let key in rawFilters) { ... }
BuildFilter(query) == FilterLoop(rawFilters(query), EmptyObj)

----------------------------------------------------------------------------
(* /update-document: flattenObject.  A JSON value is a record tagged by t; *)
(* an object is [t |-> "object", members |-> <<key, value>> pairs] in      *)
(* Object.keys order, an array [t |-> "array", items |-> ...].             *)

JNull == [t |-> "null"]

JArray(items) == [t |-> "array", items |-> items]

JObject(members) == [t |-> "object", members |-> members]

\* value && typeof value === 'object' && !Array.isArray(value)
IsNested(value) ==
    /\ value.t # "null"
    /\ value.t \in {"object", "array", "null"}
    /\ value.t # "array"

\* const newKey = key: the prefix is forgotten
NewKey_NoPrefix(prefix, key) == key

\* const newKey = prefix ? `${prefix}.${key}` : key
NewKey(prefix, key) == IF TruthyStr(prefix) THEN prefix \o <<".">> \o key ELSE key

RECURSIVE flattenObject(_, _), FlattenReduce(_, _, _)
\* Object.keys(obj).reduce((acc, key) => { ... }, {})
flattenObject(obj, prefix) == FlattenReduce(obj.members, prefix, EmptyObj)

FlattenReduce(members, prefix, acc) ==
    IF Len(members) = 0 THEN acc
    ELSE LET key    == members[1][1]
             value  == members[1][2]
             newKey == NewKey(prefix, key)
         IN  FlattenReduce(Tail(members), prefix,
                 IF IsNested(value)
                 THEN Assign(acc, flattenObject(value, newKey))
                 ELSE Put(acc, newKey, value))

----------------------------------------------------------------------------
(* mongoose.models, the process-wide registry, and the three handlers.     *)
(* A handler runs without interruption up to its await (one action); the   *)
(* store's answer resumes it later (a second action).                      *)

\* Requests in flight at once
NReq == 2

Slots == 1..NReq

\* { strict: false }
LooseSchema == [strict |-> FALSE, autoId |-> TRUE]

\* { strict: false, _id: false }
UpdateSchema == [strict |-> FALSE, autoId |-> FALSE]

\* the lookup of mongoose.models[collection] left out: always register
IsRegistered_Never(ms, collection) == FALSE

\* mongoose.models[collection] is truthy
IsRegistered(ms, collection) == collection \in DOMAIN ms

\* mongoose.models[collection] || mongoose.model(collection, new Schema({}, options), collection)
ModelsAfter(ms, collection, options) ==
    IF IsRegistered(ms, collection) THEN ms
    ELSE Put(ms, collection, [name |-> collection, schema |-> options])

\* the calls of mongoose.model() so far, by model name
CallsAfter(ms, calls, collection) ==
    IF IsRegistered(ms, collection) THEN calls ELSE Append(calls, collection)

NoOp == [kind |-> "none"]

NoRes == [success |-> FALSE]

\* The awaited promise has not settled
Pending == [kind |-> "pending"]

Response(status, res) == [status |-> status, res |-> res]

IdleReq ==
    [pc |-> "idle", route |-> "none", query |-> <<>>, body |-> JObject(<<>>),
     op |-> NoOp, outcome |-> Pending, status |-> 0, res |-> NoRes]

\* A request reaches its handler: slots are taken in order
Arrives(i) == reqs[i].pc = "idle" /\ (IF i = 1 THEN TRUE ELSE reqs[i - 1].pc # "idle")

Awaits(i, route) == reqs[i].pc = "awaiting" /\ reqs[i].route = route

Rejected(route, query, body, message) ==
    [pc |-> "done", route |-> route, query |-> query, body |-> body, op |-> NoOp,
     outcome |-> Pending, status |-> 400, res |-> [success |-> FALSE, message |-> message]]

Issued(route, query, body, op) ==
    [pc |-> "awaiting", route |-> route, query |-> query, body |-> body, op |-> op,
     outcome |-> Pending, status |-> 0, res |-> NoRes]

\* res.status(...).json(...) once the awaited promise has settled
Answer(req, outcome, response) ==
    [req EXCEPT !.pc = "done", !.outcome = outcome,
                !.status = response.status, !.res = response.res]

\* app.get('/get-data'), up to the await
GetData(i, query) ==
    /\ Arrives(i)
    /\ IF Falsy(query, COLLECTION)
       THEN /\ reqs' = [reqs EXCEPT ![i] =
                          Rejected("get-data", query, JObject(<<>>),
                                   "Missing required 'collection' parameter.")]
            /\ UNCHANGED <<models, modelCalls>>
       ELSE LET collection == Get(query, COLLECTION)
            IN  /\ models' = ModelsAfter(models, collection, LooseSchema)
                /\ modelCalls' = CallsAfter(models, modelCalls, collection)
                /\ reqs' = [reqs EXCEPT ![i] =
                              Issued("get-data", query, JObject(<<>>),
                                     [kind |-> "find", model |-> models'[collection],
                                      filter |-> BuildFilter(query),
                                      sort |-> sortObj(query),
                                      limit |-> parsedLimit(query),
                                      lean |-> TRUE])]

\* catch (error) of /get-data
GetDataCatch(error) == Response(500, [success |-> FALSE, error |-> <<error.message>>])

\* app.get('/get-data'), from the await on
GetDataReply(i, outcome) ==
    /\ Awaits(i, "get-data")
    /\ reqs' = [reqs EXCEPT ![i] =
                  Answer(@, outcome,
                         IF outcome.kind = "error" THEN GetDataCatch(outcome)
                         ELSE Response(200, [success |-> TRUE, data |-> outcome.data]))]
    /\ UNCHANGED <<models, modelCalls>>

\* app.put('/update-document'), up to the await
UpdateDocument(i, query, body) ==
    /\ Arrives(i)
    /\ IF Falsy(query, COLLECTION) \/ Falsy(query, ID)
       THEN /\ reqs' = [reqs EXCEPT ![i] =
                          Rejected("update-document", query, body,
                                   "Missing 'collection' or 'id' in query.")]
            /\ UNCHANGED <<models, modelCalls>>
       ELSE LET collection == Get(query, COLLECTION)
                updateData == flattenObject(body, <<>>)
            IN  /\ models' = ModelsAfter(models, collection, UpdateSchema)
                /\ modelCalls' = CallsAfter(models, modelCalls, collection)
                /\ reqs' = [reqs EXCEPT ![i] =
                              Issued("update-document", query, body,
                                     [kind |-> "findOneAndUpdate",
                                      model |-> models'[collection],
                                      filter |-> Get(query, ID),
                                      update |-> updateData,
                                      new |-> TRUE, upsert |-> FALSE,
                                      runValidators |-> FALSE])]

\* catch (error) of /update-document
UpdateDocumentCatch(error) ==
    IF error.name = "CastError"
    THEN Response(400, [success |-> FALSE,
                        error |-> <<"Invalid ID format: ", error.message>>])
    ELSE IF error.name = "ValidationError"
    THEN Response(400, [success |-> FALSE,
                        error |-> <<"Validation failed: ", error.message>>])
    ELSE Response(500, [success |-> FALSE, error |-> <<error.message>>,
                        type |-> error.name])

\* app.put('/update-document'), from the await on
UpdateDocumentReply(i, outcome) ==
    /\ Awaits(i, "update-document")
    /\ reqs' = [reqs EXCEPT ![i] =
                  Answer(@, outcome,
                         IF outcome.kind = "error" THEN UpdateDocumentCatch(outcome)
                         ELSE IF outcome.kind = "null"
                         THEN Response(404, [success |-> FALSE,
                                             message |-> "Document not found."])
                         ELSE Response(200, [success |-> TRUE, data |-> outcome.data,
                                             message |-> "Document updated successfully"]))]
    /\ UNCHANGED <<models, modelCalls>>

\* app.delete('/delete-document'), up to the await
DeleteDocument(i, query) ==
    /\ Arrives(i)
    /\ IF Falsy(query, COLLECTION) \/ Falsy(query, ID)
       THEN /\ reqs' = [reqs EXCEPT ![i] =
                          Rejected("delete-document", query, JObject(<<>>),
                                   "Missing 'collection' or 'id' in query.")]
            /\ UNCHANGED <<models, modelCalls>>
       ELSE LET collection == Get(query, COLLECTION)
            IN  /\ models' = ModelsAfter(models, collection, LooseSchema)
                /\ modelCalls' = CallsAfter(models, modelCalls, collection)
                /\ reqs' = [reqs EXCEPT ![i] =
                              Issued("delete-document", query, JObject(<<>>),
                                     [kind |-> "findByIdAndDelete",
                                      model |-> models'[collection],
                                      id |-> Get(query, ID)])]

\* the catch of /update-document copied into /delete-document
DeleteDocumentCatch_CastIs400(error) ==
    IF error.name = "CastError"
    THEN Response(400, [success |-> FALSE,
                        error |-> <<"Invalid ID format: ", error.message>>])
    ELSE Response(500, [success |-> FALSE, error |-> <<error.message>>])

\* catch (error) of /delete-document
DeleteDocumentCatch(error) == Response(500, [success |-> FALSE, error |-> <<error.message>>])

\* app.delete('/delete-document'), from the await on
DeleteDocumentReply(i, outcome) ==
    /\ Awaits(i, "delete-document")
    /\ reqs' = [reqs EXCEPT ![i] =
                  Answer(@, outcome,
                         IF outcome.kind = "error" THEN DeleteDocumentCatch(outcome)
                         ELSE IF outcome.kind = "null"
                         THEN Response(404, [success |-> FALSE,
                                             message |-> "Document not found."])
                         ELSE Response(200, [success |-> TRUE,
                                             message |-> "Document deleted successfully."]))]
    /\ UNCHANGED <<models, modelCalls>>

\* The state after the module is loaded: no model registered, no request
Init ==
    /\ models = EmptyObj
    /\ modelCalls = <<>>
    /\ reqs = [i \in Slots |-> IdleReq]

----------------------------------------------------------------------------
(* The store's answers: the awaited promise resolves or rejects            *)

StoreErrors ==
    { [kind |-> "error", name |-> "CastError", message |-> "Cast to ObjectId failed"],
      [kind |-> "error", name |-> "ValidationError", message |-> "Validation failed"],
      [kind |-> "error", name |-> "MongoNetworkError", message |-> "connection timed out"] }

FindOutcomes == {[kind |-> "ok", data |-> "docs"]} \cup StoreErrors

DocOutcomes == {[kind |-> "ok", data |-> "doc"], [kind |-> "null"]} \cup StoreErrors

----------------------------------------------------------------------------
(* Requests of the server specification                                    *)

SeqsUpTo(S, n) == UNION {[1..k -> S] : k \in 1..n}

Param(name, value) == <<name, value>>

MACHINES == <<"m", "a", "c", "h", "i", "n", "e", "s">>

SHIFTS == <<"s", "h", "i", "f", "t", "s">>

ServerGetQueries ==
    { <<>>,
      <<Param(COLLECTION, <<>>), Param(<<"a">>, <<"1">>)>>,
      <<Param(COLLECTION, MACHINES)>>,
      <<Param(COLLECTION, SHIFTS), Param(LIMIT, <<"5">>), Param(<<"a">>, <<"1", ",", "2">>)>> }

ServerIdQueries ==
    { <<Param(ID, <<"7">>)>>,
      <<Param(COLLECTION, MACHINES)>>,
      <<Param(COLLECTION, <<>>), Param(ID, <<"7">>)>>,
      <<Param(COLLECTION, MACHINES), Param(ID, <<>>)>>,
      <<Param(COLLECTION, MACHINES), Param(ID, <<"7">>)>>,
      <<Param(COLLECTION, SHIFTS), Param(ID, <<"7">>)>> }

ServerBodies ==
    { JObject(<< <<<<"a">>, JObject(<< <<<<"b">>, Finite(1, 0)>> >>)>> >>) }

ReceiveGetData == \E i \in Slots : Arrives(i) /\ \E q \in ServerGetQueries : GetData(i, q)

ReceiveUpdateDocument ==
    \E i \in Slots :
        Arrives(i) /\ \E q \in ServerIdQueries, b \in ServerBodies : UpdateDocument(i, q, b)

ReceiveDeleteDocument ==
    \E i \in Slots : Arrives(i) /\ \E q \in ServerIdQueries : DeleteDocument(i, q)

FindSettles == \E i \in Slots, o \in FindOutcomes : GetDataReply(i, o)

UpdateSettles == \E i \in Slots, o \in DocOutcomes : UpdateDocumentReply(i, o)

DeleteSettles == \E i \in Slots, o \in DocOutcomes : DeleteDocumentReply(i, o)

Next ==
    \/ ReceiveGetData
    \/ ReceiveUpdateDocument
    \/ ReceiveDeleteDocument
    \/ FindSettles
    \/ UpdateSettles
    \/ DeleteSettles

Spec == Init /\ [][Next]_vars

----------------------------------------------------------------------------
(* Requests of the query-translation specification: one /get-data request  *)
(* whose parameters range over composed names and comma-separated values.  *)

\* Segments of a parameter name, joined by "__"
MaxSegs == 3

\* Comma-separated tokens of a parameter value
MaxTokens == 2

SegPool ==
    { <<"a">>, <<"b">>, LIMIT, SORTBY, <<"e", "x", "i", "s", "t", "s">> }

TokenPool ==
    { <<>>, <<" ">>, <<"4", "2">>, <<"-", "7">>, <<"1", ".", "5">>, <<"0", "x", "1", "f">>,
      TRUESTR, FALSESTR, <<"a", "b", "c">> }

ComposedKeys == {Join(segs, <<"_", "_">>) : segs \in SeqsUpTo(SegPool, MaxSegs)}

ComposedValues == {Join(toks, <<",">>) : toks \in SeqsUpTo(TokenPool, MaxTokens)}

FlagValues == { TRUESTR, <<"T", "r", "u", "e">>, FALSESTR }

LimitValues ==
    { <<>>, <<"0">>, <<"1", "0">>, <<" ", "7">>, <<"-", "5">>, <<"1", ".", "9">>,
      <<"1", "2", "a", "b", "c">>, <<"0", "x", "1", "f">>, <<"a", "b", "c">>,
      <<"n", "o", "t", "a", "n", "u", "m", "b", "e", "r">> }

SortParams ==
    { <<Param(SORTBY, <<"a", "g", "e">>)>>,
      <<Param(SORTBY, <<"a", "g", "e">>), Param(SORTORDER, <<"D", "E", "S", "C">>)>>,
      <<Param(SORTBY, <<"a", "g", "e">>), Param(SORTORDER, DESC)>>,
      <<Param(SORTBY, <<"a", "g", "e">>), Param(SORTORDER, <<"u", "p">>)>>,
      <<Param(SORTBY, <<>>), Param(SORTORDER, DESC)>> }

MainParams ==
    {Param(k, v) : k \in ComposedKeys, v \in FlagValues}
        \cup {Param(<<"a">>, v) : v \in ComposedValues}

\* A second filter parameter enumerated before or after the main one
SideParams ==
    { Param(<<"a">>, <<"1">>),
      Param(<<"a", "_", "_", "e", "x", "i", "s", "t", "s">>, TRUESTR) }

DistinctPairs == {pq \in MainParams \X SideParams : pq[1][1] # pq[2][1]}

FilterParams ==
    {<<p>> : p \in MainParams}
        \cup {<<pq[1], pq[2]>> : pq \in DistinctPairs}
        \cup {<<pq[2], pq[1]>> : pq \in DistinctPairs}

TranslatedQueries ==
    {<<Param(COLLECTION, MACHINES)>> \o ps :
        ps \in FilterParams \cup SortParams \cup {<<Param(LIMIT, v)>> : v \in LimitValues}}

TranslateQuery == Arrives(1) /\ \E q \in TranslatedQueries : GetData(1, q)

TranslatedFindSettles == \E o \in FindOutcomes : GetDataReply(1, o)

NextQuery == TranslateQuery \/ TranslatedFindSettles

SpecQuery == Init /\ [][NextQuery]_vars

----------------------------------------------------------------------------
(* Properties of the query translation (checked under SpecQuery)           *)

\* The requests whose handler issued DynamicModel.find(...)
Finds == {i \in Slots : reqs[i].op.kind = "find"}

\* The last filter parameter the loop visits: nothing is assigned after it
LastFilter(query) == rawFilters(query)[Len(rawFilters(query))]

HasFilters(query) == Len(rawFilters(query)) > 0

\* C1: the limit handed to the store is 50 when `limit` is absent or does
\* not parse as an integer, the parsed integer otherwise, and never NaN.
C1_LimitDefaultsTo50 ==
    \A i \in Finds :
        LET query == reqs[i].query
            unparsable == ~Has(query, LIMIT) \/ parseInt(Get(query, LIMIT)).k = "NaN"
        IN  /\ reqs[i].op.limit =
                 (IF unparsable THEN Finite(50, 0) ELSE parseInt(Get(query, LIMIT)))
            /\ reqs[i].op.limit.k # "NaN"

\* C2: the filter built from any parameter set holds none of the keys
\* collection, limit, sortBy, sortOrder.
C2_NoControlKeyInFilter ==
    \A i \in Finds : (DOMAIN reqs[i].op.filter) \cap ControlKeys = {}

\* The parameter name with exactly its trailing "__exists" removed
StripSuffix(key) == SubSeq(key, 1, Len(key) - Len(EXISTS_SUFFIX))

\* C3: a parameter K ending in "__exists" with value V sets, on the field
\* named K without that trailing suffix, an existence predicate that is
\* true iff V is exactly "true".
C3_ExistsOnStrippedName ==
    \A i \in Finds :
        LET query == reqs[i].query
            key   == LastFilter(query)[1]
            raw   == LastFilter(query)[2]
            f     == reqs[i].op.filter
        IN  (HasFilters(query) /\ EndsWith(key, EXISTS_SUFFIX)) =>
                /\ StripSuffix(key) \in DOMAIN f
                /\ f[StripSuffix(key)] = [t |-> "$exists", b |-> (raw = TRUESTR)]

\* A numeric literal: a token that holds more than white space and that
\* the number grammar accepts
IsNumericLiteral(tok) == Len(TrimStart(tok)) > 0 /\ Number(tok).k # "NaN"

TypedToken(tok) ==
    IF IsNumericLiteral(tok) THEN Number(tok)
    ELSE IF tok = TRUESTR THEN [t |-> "boolean", b |-> TRUE]
    ELSE IF tok = FALSESTR THEN [t |-> "boolean", b |-> FALSE]
    ELSE [t |-> "string", s |-> tok]

\* The converted tokens a filter value holds, given how many tokens went in
TokensOf(value, n) ==
    IF n = 1 THEN <<value>> ELSE IF value.t = "$in" THEN value.list ELSE <<>>

\* C4: each comma-separated token of a non-"__exists" value becomes a
\* number only if it is a numeric literal, else a boolean only if it is
\* "true" or "false", else stays the string; an empty or blank token is
\* not a number.
C4_TokenTypedByLiteral ==
    \A i \in Finds :
        LET query == reqs[i].query
            key   == LastFilter(query)[1]
            toks  == Split(LastFilter(query)[2], <<",">>)
            f     == reqs[i].op.filter
        IN  (HasFilters(query) /\ ~EndsWith(key, EXISTS_SUFFIX)) =>
                /\ key \in DOMAIN f
                /\ TokensOf(f[key], Len(toks)) = [j \in 1..Len(toks) |-> TypedToken(toks[j])]

\* What the claim says the filter holds for a non-"__exists" value
EqualityOrIn(raw) ==
    LET toks == Split(raw, <<",">>)
    IN  IF Len(toks) = 1 THEN ConvertToken(toks[1])
        ELSE [t |-> "$in", list |-> [j \in 1..Len(toks) |-> ConvertToken(toks[j])]]

\* The positions of the non-"__exists" filter parameters
PlainPositions(query) ==
    {j \in 1..Len(rawFilters(query)) : ~EndsWith(rawFilters(query)[j][1], EXISTS_SUFFIX)}

\* C5 as stated: every non-"__exists" parameter's field holds the single
\* converted value (one token) or the "in one of" list of all converted
\* tokens in order (more than one).
C5_EqualityOrInAlways ==
    \A i \in Finds :
        LET query == reqs[i].query
            f     == reqs[i].op.filter
        IN  \A j \in PlainPositions(query) :
                /\ rawFilters(query)[j][1] \in DOMAIN f
                /\ f[rawFilters(query)[j][1]] = EqualityOrIn(rawFilters(query)[j][2])

\* A later "__exists" parameter assigns the field of parameter j
OverwrittenLater(query, j) ==
    \E k \in (j + 1)..Len(rawFilters(query)) :
        /\ EndsWith(rawFilters(query)[k][1], EXISTS_SUFFIX)
        /\ ExistsField(rawFilters(query)[k][1]) = rawFilters(query)[j][1]

\* C5 amended: the same, for every non-"__exists" parameter whose field no
\* later-enumerated "__exists" parameter assigns (such a parameter replaces
\* the value by its existence predicate).
C5_EqualityOrInUnlessOverwritten ==
    \A i \in Finds :
        LET query == reqs[i].query
            f     == reqs[i].op.filter
        IN  \A j \in PlainPositions(query) :
                /\ rawFilters(query)[j][1] \in DOMAIN f
                /\ IF OverwrittenLater(query, j)
                   THEN f[rawFilters(query)[j][1]].t = "$exists"
                   ELSE f[rawFilters(query)[j][1]] = EqualityOrIn(rawFilters(query)[j][2])

\* A two-token value became an "in one of" list of two, after an earlier
\* "__exists" parameter had assigned the same field
C5_Witness ==
    \E i \in Finds :
        LET query == reqs[i].query
        IN  /\ Len(rawFilters(query)) = 2
            /\ EndsWith(rawFilters(query)[1][1], EXISTS_SUFFIX)
            /\ rawFilters(query)[2][1] = <<"a">>
            /\ reqs[i].op.filter[<<"a">>].t = "$in"
            /\ Len(reqs[i].op.filter[<<"a">>].list) = 2
            /\ reqs[i].op.filter[<<"a">>].list[1] # reqs[i].op.filter[<<"a">>].list[2]

----------------------------------------------------------------------------
(* Requests of the update-normalisation specification: one                 *)
(* /update-document request whose body ranges over nested JSON objects.    *)

\* Members of the request body
MaxWidth == 2

KA == <<"a">>

KB == <<"b">>

KDOTTED == <<"a", ".", "b">>

KEMPTY == <<>>

ONE == Finite(1, 0)

UpdateKeys == {KA, KB, KDOTTED, KEMPTY}

Leaves == {ONE, JNull, JArray(<<JObject(<<Param(KB, ONE)>>)>>)}

NestedPool ==
    { JObject(<<>>),
      JObject(<<Param(KA, ONE)>>),
      JObject(<<Param(KB, ONE)>>),
      JObject(<<Param(KEMPTY, ONE)>>),
      JObject(<<Param(KDOTTED, ONE)>>),
      JObject(<<Param(KA, ONE), Param(KB, JNull)>>),
      JObject(<<Param(KA, JObject(<<Param(KB, ONE)>>))>>),
      JObject(<<Param(KB, JObject(<<>>))>>),
      JObject(<<Param(KB, JObject(<<Param(KA, JArray(<<ONE>>))>>))>>) }

DistinctKeys(members) ==
    \A i, j \in 1..Len(members) : members[i][1] = members[j][1] => i = j

UpdateBodies ==
    {JObject(<<>>)} \cup
    {JObject(ms) : ms \in {m \in SeqsUpTo(UpdateKeys \X (Leaves \cup NestedPool), MaxWidth) :
                              DistinctKeys(m)}}

UpdateQuery == <<Param(COLLECTION, MACHINES), Param(ID, <<"7">>)>>

NormalizeUpdate == Arrives(1) /\ \E b \in UpdateBodies : UpdateDocument(1, UpdateQuery, b)

NormalizedUpdateSettles == \E o \in DocOutcomes : UpdateDocumentReply(1, o)

NextUpdate == NormalizeUpdate \/ NormalizedUpdateSettles

SpecUpdate == Init /\ [][NextUpdate]_vars

----------------------------------------------------------------------------
(* Properties of flattenObject (checked under SpecUpdate)                  *)

\* The requests whose handler issued DynamicModel.findOneAndUpdate(...)
Updates == {i \in Slots : reqs[i].op.kind = "findOneAndUpdate"}

\* The positions of the tree that are not objects: each is written once
RECURSIVE LeafCount(_), LeafCountOf(_)
LeafCount(value) == IF value.t = "object" THEN LeafCountOf(value.members) ELSE 1

LeafCountOf(members) ==
    IF Len(members) = 0 THEN 0 ELSE LeafCount(members[1][2]) + LeafCountOf(Tail(members))

\* The keys of the object and of every object nested in it
RECURSIVE KeysOf(_)
KeysOf(value) ==
    IF value.t = "object"
    THEN UNION {{value.members[j][1]} \cup KeysOf(value.members[j][2]) :
                    j \in 1..Len(value.members)}
    ELSE {}

PlainKey(key) == Len(key) > 0 /\ IndexOf(key, <<".">>) = 0

PlainKeyed(value) == \A key \in KeysOf(value) : PlainKey(key)

\* No key followed by "." is a prefix of another key, and as many keys
\* as positions written
LeafPaths(body, flat) ==
    /\ \A k1, k2 \in DOMAIN flat : ~StartsWith(k2, k1 \o <<".">>)
    /\ Cardinality(DOMAIN flat) = LeafCount(body)

\* C6 as stated: for every JSON object, keys with dots or empty included,
\* the flat mapping's keys are leaf paths and no two positions of the tree
\* write the same key.
C6_LeafPathsForAnyKeys ==
    \A i \in Updates : LeafPaths(reqs[i].body, reqs[i].op.update)

\* C6 amended: the same for every JSON object whose keys, at every level,
\* are non-empty and hold no dot.
C6_LeafPathsForPlainKeys ==
    \A i \in Updates :
        PlainKeyed(reqs[i].body) => LeafPaths(reqs[i].body, reqs[i].op.update)

\* A body with plain keys, two members and a nested object was flattened
\* into a dotted path and another key
C6_Witness ==
    \E i \in Updates :
        /\ PlainKeyed(reqs[i].body)
        /\ Len(reqs[i].body.members) = 2
        /\ \E j \in 1..2 : /\ reqs[i].body.members[j][2].t = "object"
                           /\ LeafCount(reqs[i].body.members[j][2]) = 2
        /\ LeafCount(reqs[i].body) = 3
        /\ KDOTTED \in DOMAIN reqs[i].op.update

\* The tree as nested mappings, member order dropped
RECURSIVE AsMap(_)
AsMap(value) ==
    IF value.t = "object"
    THEN [t |-> "object",
          map |-> [key \in {value.members[j][1] : j \in 1..Len(value.members)} |->
                      AsMap((CHOOSE m \in {value.members[j] : j \in 1..Len(value.members)} :
                                m[1] = key)[2])]]
    ELSE value

\* The nested object rebuilt from <<path, value>> pairs, a path being the
\* key split on "."
RECURSIVE Rebuild(_)
Rebuild(pairs) ==
    [t |-> "object",
     map |-> [seg \in {p[1][1] : p \in pairs} |->
                LET under == {p \in pairs : p[1][1] = seg}
                IN  IF \E p \in under : Len(p[1]) = 1
                    THEN (CHOOSE p \in under : Len(p[1]) = 1)[2]
                    ELSE Rebuild({<<Tail(p[1]), p[2]>> : p \in under})]]

Unflatten(flat) == Rebuild({<<Split(key, <<".">>), flat[key]>> : key \in DOMAIN flat})

\* C7: for every JSON object with plain keys (nested objects of any size,
\* the empty one included), rebuilding the flat mapping by splitting its
\* keys on "." gives back the tree.
C7_RoundTrip ==
    \A i \in Updates :
        PlainKeyed(reqs[i].body) => Unflatten(reqs[i].op.update) = AsMap(reqs[i].body)

----------------------------------------------------------------------------
(* Properties of the handlers and of the registry (checked under Spec)     *)

\* The requests whose awaited store operation was rejected
Failed == {i \in Slots : reqs[i].outcome.kind = "error"}

NoCollection(query) ==
    \A j \in 1..Len(query) : query[j][1] = COLLECTION => query[j][2] = <<>>

\* C9: a request whose `collection` is absent or empty is answered 400 in
\* the step that receives it, with no model registered, no call of
\* mongoose.model and no store operation issued.
C9_NoCollectionNoStoreAccess ==
    [][\A i \in Slots :
          (reqs[i].pc = "idle" /\ reqs'[i].pc # "idle" /\ NoCollection(reqs'[i].query)) =>
              /\ reqs'[i].pc = "done"
              /\ reqs'[i].status = 400
              /\ reqs'[i].op = NoOp
              /\ models' = models
              /\ modelCalls' = modelCalls]_vars

\* /update-document rejected a request whose collection is the empty
\* string while another request's store operation was in flight, and the
\* registry holds that other request's model only
C9_Witness ==
    \E i, j \in Slots :
        /\ reqs[i].pc = "awaiting"
        /\ reqs[j].pc = "done"
        /\ reqs[j].route = "update-document"
        /\ Has(reqs[j].query, COLLECTION)
        /\ NoCollection(reqs[j].query)
        /\ reqs[j].status = 400
        /\ reqs[j].op = NoOp
        /\ DOMAIN models = {reqs[i].op.model.name}

RangeOf(seq) == {seq[j] : j \in 1..Len(seq)}

\* One model per name, each registered by exactly one call
OneModelPerName ==
    /\ DOMAIN models = RangeOf(modelCalls)
    /\ \A j, k \in 1..Len(modelCalls) : modelCalls[j] = modelCalls[k] => j = k
    /\ \A c \in DOMAIN models : models[c].name = c

\* Every store operation runs on the model the registry holds for its name
RunsOnRegistered ==
    \A i \in Slots :
        reqs[i].op # NoOp =>
            /\ reqs[i].op.model.name = Get(reqs[i].query, COLLECTION)
            /\ reqs[i].op.model.name \in DOMAIN models
            /\ reqs[i].op.model = models[reqs[i].op.model.name]

\* mongoose.model is called only for a name the registry does not hold
RegistersOnlyAbsent ==
    modelCalls' # modelCalls =>
        \E c \in (DOMAIN models') \ (DOMAIN models) : modelCalls' = Append(modelCalls, c)

\* A registered model and its schema options are never replaced
NeverReplaced == \A c \in DOMAIN models : c \in DOMAIN models' /\ models'[c] = models[c]

\* C10: across interleaved requests the registry holds one model per name,
\* a model is registered only when its name is absent, a registered model
\* and its schema options are never replaced, and every operation, the one
\* of /update-document included, runs with the options of the first
\* registration of its collection.
C10_RegistryCreateIfAbsent ==
    /\ [](OneModelPerName /\ RunsOnRegistered)
    /\ [][RegistersOnlyAbsent /\ NeverReplaced]_vars

\* Two requests for one collection in flight at once, the update running
\* with the options /get-data or /delete-document registered (_id generated)
C10_Witness ==
    \E i, j \in Slots :
        /\ i < j
        /\ reqs[i].pc = "awaiting"
        /\ reqs[j].pc = "awaiting"
        /\ reqs[i].route # "update-document"
        /\ reqs[j].route = "update-document"
        /\ reqs[j].op.model.name = reqs[i].op.model.name
        /\ reqs[j].op.model.schema = LooseSchema
        /\ Len(modelCalls) = 1

====
